---- MODULE Spec2Model ----
(***************************************************************************)
(* pytest-retry: the per-test retry state machine of                       *)
(* src/pytest_retry/retry_plugin.py, driven by the host's run protocol     *)
(* (setup stage, call stage, teardown stage, one makereport per stage).    *)
(***************************************************************************)
EXTENDS Integers, Sequences, FiniteSets, TLC

VARIABLES
    pc,                \* position of the host's protocol / of the retry loop
    config,            \* pytest.Config: command-line options and ini-file values
    slept,             \* seconds spent in sleep(delay) for the item
    item,              \* the test item: its flaky marker, its xfail marker
    Defaults,          \* the Config Registry after pytest_configure
    fixtures,          \* per fixture scope: set up or not, setups, teardowns
    node_stats,        \* retry_manager.node_stats[item.nodeid]
    stash,             \* item.stash (outcome_key, duration_key, attempts_key, ...)
    call,              \* the CallInfo the makereport wrapper holds
    t_call,            \* the CallInfo of the last preliminary teardown
    original_report,   \* the host's call-stage TestReport
    retry_report,      \* the TestReport of the last retry attempt
    exception_filter,  \* locals of pytest_runtest_makereport
    retries,
    delay,
    cumulative_timing,
    attempts,
    logreports,        \* reports passed to hook.pytest_runtest_logreport, in order
    stream,            \* frames handed to reporter.record_attempt, in order
    hook_calls,        \* how often each host hook (and sleep) has run for the item,
                       \* and how many of the setup hook's runs raised
    raised,            \* exception that left the plugin's hook, "None" if none
    registry_call,     \* the last call made on the Config Registry and how it ended
    workers,           \* per xdist worker: its tests, its ClientReporter
    network,           \* per worker connection: bytes sent and not yet received
    server,            \* the controller's ReportServer: sockets, listener, stream
    controller         \* the controller's main thread: session phase, final report

\* the retry state machine of one process
machine == <<pc, config, slept, item, Defaults, fixtures, node_stats, stash, call, t_call, original_report,
             retry_report, exception_filter, retries, delay, cumulative_timing,
             attempts, logreports, stream, hook_calls, raised>>

\* the report transport of a multi-worker run
transport == <<workers, network, server, controller>>

vars == <<machine, registry_call, transport>>

(***************************************************************************)
(* Bounds of the model.                                                    *)
(***************************************************************************)
MaxRetries == 2

(***************************************************************************)
(* Program constants.                                                      *)
(***************************************************************************)
stages == <<"setup", "call", "teardown">>
RETRY == 0
FAIL == 1
EXIT == 2
PASS == 3

NoExc == "None"
Skipped == "Skipped"
ExcClasses == {"ValueError", "IndexError"}
ConfigurationError == "ConfigurationError"

\* RetryManager.messages, indexed by RETRY, FAIL, EXIT, PASS (as index + 1)
messages ==
    << " failed on attempt {attempt}! Retrying!",
       " failed after {attempt} attempts!",
       " teardown failed on attempt {attempt}! Exiting immediately!",
       " passed on attempt {attempt}!" >>

\* _Defaults._DEFAULT_CONFIG
DEFAULT_CONFIG ==
    [RETRIES |-> 1, RETRY_DELAY |-> 0, CUMULATIVE_TIMING |-> FALSE,
     RETRY_OUTCOME |-> "retried"]

(***************************************************************************)
(* Helpers on sequences and mappings.                                      *)
(***************************************************************************)
Contains(seq, x) == \E i \in DOMAIN seq : seq[i] = x

Last(seq) == seq[Len(seq)]

RECURSIVE SumSeq(_)
SumSeq(seq) == IF seq = <<>> THEN 0 ELSE Head(seq) + SumSeq(Tail(seq))

\* mapping[key] = value (dict and stash item assignment)
Put(mapping, key, value) ==
    [k \in DOMAIN mapping \cup {key} |-> IF k = key THEN value ELSE mapping[k]]

\* a lookup that never finds the key
kwargs_get_default_only(kwargs, key, default) == default

\* dict.get(key, default)
kwargs_get(kwargs, key, default) ==
    IF key \in DOMAIN kwargs THEN kwargs[key] ELSE default

(***************************************************************************)
(* pytest.Config and the Config Registry (configs.py).  A config is the    *)
(* texts given on the command line (cli) and in the ini file (ini), each a *)
(* mapping from the option names that were given.                          *)
(***************************************************************************)
OptionNames == {"retries", "retry_delay", "cumulative_timing", "retry_outcome"}

\* key.lower() of the registry keys
lower ==
    [RETRIES |-> "retries", RETRY_DELAY |-> "retry_delay",
     CUMULATIVE_TIMING |-> "cumulative_timing", RETRY_OUTCOME |-> "retry_outcome"]

\* int(text) and float(text) on the texts in use (seconds are whole numbers)
int == ("0" :> 0) @@ ("1" :> 1) @@ ("2" :> 2)

\* bool(text), the type of --cumulative-timing: true for every non-empty text
bool(text) == text # ""

\* the ini parser's conversion of a bool-typed value
strtobool == ("true" :> TRUE) @@ ("false" :> FALSE)

\* config.getoption(name) is not None
has_option(cfg, name) == name \in DOMAIN cfg.cli

\* config.getoption(name) of an option that was passed, converted by its type
getoption(cfg, name) ==
    IF name \in {"retries", "retry_delay"} THEN int[cfg.cli[name]]
    ELSE IF name = "cumulative_timing" THEN bool(cfg.cli[name])
    ELSE cfg.cli[name]

\* bool(config.getini("retries")): the text of a key that is set, which is
\* true unless empty, or the default 0 of addini, which is false
getini_retries_is_true(cfg) ==
    "retries" \in DOMAIN cfg.ini /\ cfg.ini["retries"] # ""

\* _Defaults.load_ini: every key is read, a key that is not set gives the
\* default of its addini (0, 0, False, "retried")
load_ini(opts, cfg) ==
    [opts EXCEPT
        !.RETRIES = IF "retries" \in DOMAIN cfg.ini
                    THEN int[cfg.ini["retries"]] ELSE 0,
        !.RETRY_DELAY = IF "retry_delay" \in DOMAIN cfg.ini
                        THEN int[cfg.ini["retry_delay"]] ELSE 0,
        !.CUMULATIVE_TIMING = IF "cumulative_timing" \in DOMAIN cfg.ini
                              THEN strtobool[cfg.ini["cumulative_timing"]]
                              ELSE FALSE,
        !.RETRY_OUTCOME = IF "retry_outcome" \in DOMAIN cfg.ini
                          THEN cfg.ini["retry_outcome"] ELSE "retried"]

\* _Defaults.configure
configure(opts, cfg) ==
    LET loaded == IF getini_retries_is_true(cfg) THEN load_ini(opts, cfg)
                  ELSE opts
    IN  [key \in DOMAIN opts |->
            IF has_option(cfg, lower[key]) THEN getoption(cfg, lower[key])
            ELSE loaded[key]]

\* _Defaults.__getattr__: called for a name the class does not define
getattr_raises(opts, name) == name \notin DOMAIN opts

getattr(opts, name) == opts[name]

\* _Defaults.__setattr__: raises for every name and value
setattr(opts, name, value) == opts

\* an add that stores before it tests
add_overwrites(opts, name, value) == Put(opts, name, value)

\* _Defaults.add
add(opts, name, value) ==
    IF name \in DOMAIN opts THEN opts ELSE Put(opts, name, value)

add_raises(opts, name) == name \in DOMAIN opts

\* pytest_collection_modifyitems, line 369:
\* config.getoption("--retries") or config.getini("retries")
global_retry_enabled(cfg) ==
    \/ (has_option(cfg, "retries") /\ getoption(cfg, "retries") # 0)
    \/ getini_retries_is_true(cfg)

\* lines 371-374 for one item
add_flaky_marker(it, defaults) ==
    IF it.flaky THEN it
    ELSE [it EXCEPT !.flaky = TRUE, !.kwargs = ("retries" :> defaults.RETRIES)]

(***************************************************************************)
(* ExceptionFilter                                                         *)
(***************************************************************************)
\* __init__ raises ConfigurationError when both collections are non-empty
ExceptionFilter_init_raises(expected_exceptions, excluded_exceptions) ==
    expected_exceptions # {} /\ excluded_exceptions # {}

\* __init__: list_type = bool(expected); filter = expected or excluded or []
ExceptionFilter(expected_exceptions, excluded_exceptions) ==
    [list_type |-> expected_exceptions # {},
     filter    |-> IF expected_exceptions # {} THEN expected_exceptions
                   ELSE excluded_exceptions]

\* a filter that forgets list_type and treats every collection as only_on
ExceptionFilter_call_ignores_list_type(self, exception_type) ==
    self.filter = {} \/ exception_type \in self.filter

\* __call__: not self.filter or (self.list_type == (exception_type in self.filter))
ExceptionFilter_call(self, exception_type) ==
    self.filter = {} \/ (self.list_type = (exception_type \in self.filter))

\* __bool__
ExceptionFilter_bool(self) == self.filter # {}

\* lines 192-195: ExceptionFilter(only_on, exclude) or ExceptionFilter(global...);
\* the second filter is built only when the first one is falsy
compose_filter_raises(kwargs, defaults) ==
    LET only_on == kwargs_get(kwargs, "only_on", {})
        exclude == kwargs_get(kwargs, "exclude", {})
    IN  \/ ExceptionFilter_init_raises(only_on, exclude)
        \/ /\ ~ExceptionFilter_bool(ExceptionFilter(only_on, exclude))
           /\ ExceptionFilter_init_raises(defaults.FILTERED_EXCEPTIONS,
                                          defaults.EXCLUDED_EXCEPTIONS)

\* a composition in which a non-empty global filter wins over the marker's
compose_filter_global_first(kwargs, defaults) ==
    LET per_test == ExceptionFilter(kwargs_get(kwargs, "only_on", {}),
                                    kwargs_get(kwargs, "exclude", {}))
        global == ExceptionFilter(defaults.FILTERED_EXCEPTIONS,
                                  defaults.EXCLUDED_EXCEPTIONS)
    IN  IF ExceptionFilter_bool(global) THEN global ELSE per_test

compose_filter(kwargs, defaults) ==
    LET per_test == ExceptionFilter(kwargs_get(kwargs, "only_on", {}),
                                    kwargs_get(kwargs, "exclude", {}))
    IN  IF ExceptionFilter_bool(per_test) THEN per_test
        ELSE ExceptionFilter(defaults.FILTERED_EXCEPTIONS,
                             defaults.EXCLUDED_EXCEPTIONS)

(***************************************************************************)
(* RetryManager                                                            *)
(***************************************************************************)
\* frames numbered from zero
log_attempt_zero_based(attempt, name, exc, result) ==
    [name    |-> name,
     result  |-> result,
     message |-> messages[result + 1],
     attempt |-> attempt - 1,
     trace   |-> exc]

\* log_attempt: the frame [name, message, formatted_trace, separator]; the
\* formatted trace is kept as the exception it formats ("None": no trace)
log_attempt(attempt, name, exc, result) ==
    [name    |-> name,
     result  |-> result,
     message |-> messages[result + 1],
     attempt |-> attempt,
     trace   |-> exc]

\* reporter.record_attempt of the in-process reporter: append to the buffer
record_attempt(buffer, frame) == Append(buffer, frame)

\* pytest_runtest_protocol, before the yield
new_node_stats ==
    [outcomes  |-> [k \in {"setup", "call", "teardown"} |-> <<>>],
     durations |-> [k \in {"setup", "call", "teardown"} |-> <<0>>]]

record_node_stats(stats, report) ==
    [outcomes  |-> [stats.outcomes EXCEPT
                      ![report.when] = Append(@, report.outcome)],
     durations |-> [stats.durations EXCEPT
                      ![report.when] = Append(@, report.duration)]]

\* a derivation that forgets the teardown outcomes
simple_outcome_without_teardown(stats) ==
    LET test_outcomes == stats.outcomes
    IN  IF Contains(test_outcomes["setup"], "skipped") THEN "skipped"
        ELSE IF Contains(test_outcomes["setup"], "failed") THEN "failed"
        ELSE IF test_outcomes["call"] = <<>>
                \/ Last(test_outcomes["call"]) = "failed" THEN "failed"
        ELSE "passed"

simple_outcome(stats) ==
    LET test_outcomes == stats.outcomes
    IN  IF Contains(test_outcomes["setup"], "skipped") THEN "skipped"
        ELSE IF Contains(test_outcomes["setup"], "failed") THEN "failed"
        ELSE IF test_outcomes["call"] = <<>>
                \/ Last(test_outcomes["call"]) = "failed" THEN "failed"
        ELSE IF Contains(test_outcomes["teardown"], "failed") THEN "failed"
        ELSE "passed"

simple_duration(stats) ==
    Last(stats.durations["setup"]) + Last(stats.durations["call"])
        + Last(stats.durations["teardown"])

\* a count of the attempts that did not pass
sum_attempts_not_passed(stats) ==
    Cardinality({i \in DOMAIN stats.outcomes["call"] :
                    stats.outcomes["call"][i] # "passed"})

sum_attempts(stats) == Len(stats.outcomes["call"])

(***************************************************************************)
(* Decisions of pytest_runtest_makereport                                   *)
(***************************************************************************)
\* a decision that forgets that only the call stage is retried
should_handle_retry_any_stage(c) ==
    IF c.excinfo = NoExc THEN FALSE
    ELSE IF c.excinfo = Skipped THEN FALSE
    ELSE TRUE

should_handle_retry(c) ==
    IF c.excinfo = NoExc THEN FALSE
    ELSE IF c.when \in {"setup", "teardown"} THEN FALSE
    ELSE IF c.excinfo = Skipped THEN FALSE
    ELSE TRUE

\* early returns that forget the check of original_report.skipped
passes_early_returns_without_skipped(it, c, report) ==
    /\ should_handle_retry(c)
    /\ it.flaky
    /\ ~("condition" \in DOMAIN it.kwargs /\ it.kwargs["condition"] = FALSE)

\* early returns that forget the marker's condition
passes_early_returns_ignoring_condition(it, c, report) ==
    /\ should_handle_retry(c)
    /\ report.outcome # "skipped"
    /\ it.flaky

\* lines 178-190: the early returns before the exception filter is built
passes_early_returns(it, c, report) ==
    /\ should_handle_retry(c)
    /\ report.outcome # "skipped"
    /\ it.flaky
    /\ ~("condition" \in DOMAIN it.kwargs /\ it.kwargs["condition"] = FALSE)

(***************************************************************************)
(* The host: reports and fixtures                                          *)
(***************************************************************************)
\* what a report shows of the exception of execution n of a stage
longrepr_of(exc, n) ==
    IF exc = NoExc THEN [exc |-> NoExc, n |-> 0] ELSE [exc |-> exc, n |-> n]

\* pytest.TestReport.from_item_and_call (line 239): passed when the call did
\* not raise, skipped when it raised Skipped, failed otherwise
from_item_and_call(c, duration, n) ==
    [when     |-> c.when,
     outcome  |-> IF c.excinfo = NoExc THEN "passed"
                  ELSE IF c.excinfo = Skipped THEN "skipped"
                  ELSE "failed",
     longrepr |-> longrepr_of(c.excinfo, n),
     duration |-> duration]

\* the report the makereport wrapper receives from the host (outcome.get_result()):
\* an xfail-marked test that raises is reported skipped (line 180), a strict
\* xfail that does not raise in its call is reported failed
host_report(it, c, duration, n) ==
    LET plain == from_item_and_call(c, duration, n)
    IN  IF it.xfail = "none" \/ c.excinfo = Skipped THEN plain
        ELSE IF c.excinfo # NoExc THEN [plain EXCEPT !.outcome = "skipped"]
        ELSE IF c.when = "call" /\ it.xfail = "strict"
             THEN [plain EXCEPT !.outcome = "failed",
                                !.longrepr = [exc |-> "XPASS(strict)", n |-> n]]
        ELSE plain

\* fixture scopes, widest first: the order in which setup reaches them
ScopeOrder == <<"session", "module", "class", "function">>
Scopes == {"session", "module", "class", "function"}
ScopeIndex(s) == CHOOSE i \in DOMAIN ScopeOrder : ScopeOrder[i] = s

\* hook.pytest_runtest_teardown(item, nextitem): every scope that nextitem does
\* not share with the item is finalized; `shared` is how many of the widest
\* scopes nextitem shares
runtest_teardown(fx, shared) ==
    [s \in Scopes |->
        IF ScopeIndex(s) > shared /\ fx[s].active
        THEN [active |-> FALSE, setups |-> fx[s].setups,
              teardowns |-> fx[s].teardowns + 1]
        ELSE fx[s]]

\* a preliminary teardown towards an item of the same class: only the function
\* scope is finalized
preliminary_teardown_same_class(fx) == runtest_teardown(fx, 3)

\* nextitem = pytest.Class.from_parent(item.session, name="Fakeboi") shares the
\* session with the item and nothing else
FakeboiShared == 1
preliminary_teardown(fx) == runtest_teardown(fx, FakeboiShared)

\* hook.pytest_runtest_setup(item): sets up, widest scope first, the fixtures
\* that are not set up; `reach` is how many scopes it got through before raising
runtest_setup(fx, reach) ==
    [s \in Scopes |->
        IF ScopeIndex(s) <= reach /\ ~fx[s].active
        THEN [active |-> TRUE, setups |-> fx[s].setups + 1,
              teardowns |-> fx[s].teardowns]
        ELSE fx[s]]

AllScopes == Len(ScopeOrder)
\* a setup stage that does not raise reaches every scope; one that raises an
\* error is taken to do so before the first fixture or after the last one; a
\* skip (the skip marker) is raised before the first fixture
SetupReach(exc) ==
    IF exc = NoExc THEN {AllScopes}
    ELSE IF exc = Skipped THEN {0}
    ELSE {0, AllScopes}

\* nextitem of the final teardown: none (last item of the session), or an item of
\* the same class
NextItemShared == {0, 3}

(***************************************************************************)
(* Inputs: the test item, the resolved configuration, the stage results    *)
(***************************************************************************)
FilterSets == {{}, {"ValueError"}}
XfailMarks == {"none", "xfail", "strict"}
DurationValues == {1}
DefaultRetries == {0, 1}

SetupExc == {NoExc, "ValueError", Skipped}
CallExc == {NoExc, Skipped} \cup ExcClasses
TeardownExc == {NoExc, "ValueError"}

NoKwargs == [k \in {} |-> 0]

\* keyword arguments a flaky marker may carry
MarkerKwargs ==
    { r @@ o @@ e @@ c :
        r \in {NoKwargs} \cup {("retries" :> n) : n \in 0..MaxRetries},
        o \in {NoKwargs} \cup {("only_on" :> f) : f \in FilterSets \ {{}}},
        e \in {NoKwargs} \cup {("exclude" :> f) : f \in FilterSets \ {{}}},
        c \in {NoKwargs} \cup {("condition" :> b) : b \in BOOLEAN} }

\* how long the n-th execution of a test's body lasts: always the same, or
\* less each time (as the bodies that sleep(2 - len(a)) in the tests)
MaxCalls == MaxRetries + 2
Steady == [n \in 1..MaxCalls |-> 1]
Shrinking == [n \in 1..MaxCalls |-> MaxCalls + 1 - n]

\* a test item: whether it carries a flaky marker now (flaky) and whether it
\* was written with one (own_marker), the marker's keyword arguments, its xfail
\* marker, and how long each execution of its body lasts
Items ==
    { [name |-> "test_a", flaky |-> FALSE, own_marker |-> FALSE,
       kwargs |-> NoKwargs, xfail |-> x, durations |-> Steady] :
        x \in XfailMarks }
    \cup
    { [name |-> "test_a", flaky |-> TRUE, own_marker |-> TRUE,
       kwargs |-> k, xfail |-> x, durations |-> Steady] :
        k \in MarkerKwargs, x \in XfailMarks }

\* the Config Registry after pytest_configure (lines 305-307)
ConfiguredDefaults ==
    { [RETRIES |-> r, RETRY_DELAY |-> DEFAULT_CONFIG.RETRY_DELAY,
       CUMULATIVE_TIMING |-> DEFAULT_CONFIG.CUMULATIVE_TIMING,
       RETRY_OUTCOME |-> DEFAULT_CONFIG.RETRY_OUTCOME,
       FILTERED_EXCEPTIONS |-> f, EXCLUDED_EXCEPTIONS |-> e] :
        r \in DefaultRetries, f \in FilterSets, e \in FilterSets }

\* fixtures when the item's protocol starts: a fresh session, or the session,
\* module and class fixtures already set up by an earlier item of the class
InitialFixtures ==
    { [s \in Scopes |-> [active |-> (s # "function" /\ warm),
                         setups |-> 0, teardowns |-> 0]] : warm \in BOOLEAN }

\* a fresh session: no fixture is set up
FreshFixtures ==
    [s \in Scopes |-> [active |-> FALSE, setups |-> 0, teardowns |-> 0]]

NoReport ==
    [when |-> "none", outcome |-> "none", longrepr |-> longrepr_of(NoExc, 0),
     duration |-> 0]

\* a run without ini file whose command line passes the options in which the
\* registry differs from the built-in defaults
ConfigOf(defaults) ==
    [cli |-> (IF defaults.RETRIES = DEFAULT_CONFIG.RETRIES THEN NoKwargs
              ELSE ("retries" :> "0"))
             @@
             (IF defaults.RETRY_DELAY = DEFAULT_CONFIG.RETRY_DELAY THEN NoKwargs
              ELSE ("retry_delay" :> "1"))
             @@
             (IF defaults.CUMULATIVE_TIMING = DEFAULT_CONFIG.CUMULATIVE_TIMING
              THEN NoKwargs
              ELSE ("cumulative_timing" :> "1")),
     ini |-> NoKwargs]

\* the configurations of the runs that start at pytest_configure
CliTexts ==
    [retries |-> {"0", "2"}, retry_delay |-> {"1"},
     cumulative_timing |-> {"False"}, retry_outcome |-> {"rerun"}]
IniTexts ==
    [retries |-> {"0", "2"}, retry_delay |-> {"1"},
     cumulative_timing |-> {"true"}, retry_outcome |-> {"rerun"}]

\* the mappings from some of the option names to one of their texts
Given(texts) ==
    UNION { [names -> UNION {texts[n] : n \in names}] :
                names \in SUBSET OptionNames }

WellTyped(texts, m) == \A n \in DOMAIN m : m[n] \in texts[n]

Configs ==
    { [cli |-> c, ini |-> i] :
        c \in {m \in Given(CliTexts) : WellTyped(CliTexts, m)},
        i \in {m \in Given(IniTexts) : WellTyped(IniTexts, m)} }

\* the items of those runs: a test without flaky marker and one marked flaky()
ConfigItems ==
    { [name |-> "test_a", flaky |-> f, own_marker |-> f,
       kwargs |-> NoKwargs, xfail |-> "none", durations |-> Steady] :
        f \in BOOLEAN }

\* the items and registries of the runs that look at delay and timing
TimingKwargs ==
    { r @@ d @@ t :
        r \in {NoKwargs} \cup {("retries" :> n) : n \in 0..MaxRetries},
        d \in {NoKwargs} \cup {("delay" :> 2)},
        t \in {NoKwargs} \cup {("cumulative_timing" :> b) : b \in BOOLEAN} }

TimingItems ==
    { [name |-> "test_a", flaky |-> TRUE, own_marker |-> TRUE,
       kwargs |-> k, xfail |-> "none", durations |-> d] :
        k \in TimingKwargs, d \in {Steady, Shrinking} }

TimingDefaults ==
    { [RETRIES |-> r, RETRY_DELAY |-> d, CUMULATIVE_TIMING |-> t,
       RETRY_OUTCOME |-> DEFAULT_CONFIG.RETRY_OUTCOME,
       FILTERED_EXCEPTIONS |-> {}, EXCLUDED_EXCEPTIONS |-> {}] :
        r \in DefaultRetries, d \in {0, 1}, t \in BOOLEAN }

\* no call has been made on the registry since it was constructed
NoCall == [op |-> "none", raised |-> NoExc]

\* without xdist the reporter is the OfflineReporter: no socket, no thread
OfflineReporter == [kind |-> "offline"]

SingleProcess == [phase |-> "single process"]

\* a run without xdist: no worker, no connection
NoXdist ==
    /\ workers = <<>>
    /\ network = <<>>
    /\ server = OfflineReporter
    /\ controller = SingleProcess

\* nothing of the item has run yet
NothingRun ==
    /\ slept = 0
    /\ node_stats = [n \in {} |-> 0]
    /\ stash = [k \in {} |-> 0]
    /\ call = [when |-> "none", excinfo |-> NoExc]
    /\ t_call = [when |-> "none", excinfo |-> NoExc]
    /\ original_report = NoReport
    /\ retry_report = NoReport
    /\ exception_filter = ExceptionFilter({}, {})
    /\ retries = 0
    /\ delay = 0
    /\ cumulative_timing = FALSE
    /\ attempts = 0
    /\ logreports = <<>>
    /\ stream = <<>>
    /\ hook_calls = [h \in {"setup", "setup_raised", "call", "teardown", "sleep"}
                         |-> 0]
    /\ raised = NoExc
    /\ registry_call = NoCall

\* the item's protocol is about to start, the session is configured
Init ==
    /\ pc = "protocol"
    /\ item \in Items
    /\ Defaults \in ConfiguredDefaults
    /\ config = ConfigOf(Defaults)
    /\ fixtures \in InitialFixtures
    /\ NothingRun
    /\ NoXdist

\* the same, for the items and registries that vary delay and timing mode
InitTiming ==
    /\ pc = "protocol"
    /\ item \in TimingItems
    /\ Defaults \in TimingDefaults
    /\ config = ConfigOf(Defaults)
    /\ fixtures = FreshFixtures
    /\ NothingRun
    /\ NoXdist

\* the session is about to be configured: the registry holds _DEFAULT_CONFIG
InitConfig ==
    /\ pc = "configure"
    /\ item \in ConfigItems
    /\ Defaults = DEFAULT_CONFIG
    /\ config \in Configs
    /\ fixtures = FreshFixtures
    /\ NothingRun
    /\ NoXdist

(***************************************************************************)
(* pytest_configure, lines 305-307, and pytest_collection_modifyitems      *)
(***************************************************************************)
pytest_configure ==
    /\ pc = "configure"
    /\ \E filtered \in FilterSets, excluded \in {{}} :
         Defaults' = add(add(configure(Defaults, config),
                             "FILTERED_EXCEPTIONS", filtered),
                         "EXCLUDED_EXCEPTIONS", excluded)
    /\ pc' = "collection"
    /\ UNCHANGED <<registry_call, transport, config, slept, item, fixtures, node_stats, stash, call, t_call,
                   original_report, retry_report, exception_filter, retries,
                   delay, cumulative_timing, attempts, logreports, stream,
                   hook_calls, raised>>

pytest_collection_modifyitems ==
    /\ pc = "collection"
    /\ item' = IF global_retry_enabled(config)
               THEN add_flaky_marker(item, Defaults) ELSE item
    /\ pc' = "protocol"
    /\ UNCHANGED <<registry_call, transport, config, slept, Defaults, fixtures, node_stats, stash, call,
                   t_call, original_report, retry_report, exception_filter,
                   retries, delay, cumulative_timing, attempts, logreports,
                   stream, hook_calls, raised>>

(***************************************************************************)
(* pytest_runtest_protocol (hookwrapper), before its yield                 *)
(***************************************************************************)
pytest_runtest_protocol_begin ==
    /\ pc = "protocol"
    /\ node_stats' = Put(node_stats, item.name, new_node_stats)
    /\ pc' = "setup"
    /\ UNCHANGED <<registry_call, transport, config, slept, item, Defaults, fixtures, stash, call, t_call, original_report,
                   retry_report, exception_filter, retries, delay,
                   cumulative_timing, attempts, logreports, stream, hook_calls,
                   raised>>

(***************************************************************************)
(* pytest_runtest_makereport (hookwrapper), lines 172-203: from the yield  *)
(* to the return or to the entry of the retry loop.  On return the host    *)
(* logs the report and goes on to the stage `after`.                       *)
(***************************************************************************)
makereport(c, report, after) ==
    LET stash1 == Put(stash, "outcome_key", report.outcome)
        returns == /\ logreports' = Append(logreports, report)
                   /\ pc' = after
                   /\ raised' = raised
                   /\ UNCHANGED <<retries, delay, cumulative_timing, attempts>>
    IN  /\ node_stats' = [node_stats EXCEPT
                            ![item.name] = record_node_stats(@, report)]
        /\ stash' = stash1
        /\ call' = c
        /\ original_report' = report
        /\ IF ~passes_early_returns(item, c, report)
           THEN returns /\ UNCHANGED exception_filter
           ELSE IF compose_filter_raises(item.kwargs, Defaults)
           THEN /\ pc' = "error"
                /\ raised' = ConfigurationError
                /\ UNCHANGED <<logreports, exception_filter, retries, delay,
                               cumulative_timing, attempts>>
           ELSE /\ exception_filter' = compose_filter(item.kwargs, Defaults)
                /\ IF ~ExceptionFilter_call(exception_filter', c.excinfo)
                   THEN returns
                   ELSE /\ retries' = kwargs_get(item.kwargs, "retries",
                                                 Defaults.RETRIES)
                        /\ delay' = kwargs_get(item.kwargs, "delay",
                                               Defaults.RETRY_DELAY)
                        /\ cumulative_timing' =
                               kwargs_get(item.kwargs, "cumulative_timing",
                                          Defaults.CUMULATIVE_TIMING)
                        /\ attempts' = 1
                        /\ pc' = "retry_teardown"
                        /\ UNCHANGED <<logreports, raised>>

Ran(h) == [hook_calls EXCEPT ![h] = @ + 1]

RanSetup(exc) ==
    [hook_calls EXCEPT !["setup"] = @ + 1,
                       !["setup_raised"] = IF exc = NoExc THEN @ ELSE @ + 1]

(***************************************************************************)
(* The host's setup stage and its makereport                               *)
(***************************************************************************)
setup_stage ==
    /\ pc = "setup"
    /\ \E exc \in SetupExc, d \in DurationValues :
         \E reach \in SetupReach(exc) :
            LET c == [when |-> "setup", excinfo |-> exc]
                report == host_report(item, c, d, hook_calls["setup"] + 1)
            IN  /\ fixtures' = runtest_setup(fixtures, reach)
                /\ hook_calls' = RanSetup(exc)
                /\ makereport(c, report,
                              IF report.outcome = "passed" THEN "call"
                              ELSE "teardown")
    /\ UNCHANGED <<registry_call, transport, config, slept, item, Defaults, t_call, retry_report, stream>>

(***************************************************************************)
(* The host's call stage and its makereport, which may enter the retry loop *)
(***************************************************************************)
call_stage ==
    /\ pc = "call"
    /\ \E exc \in CallExc :
            LET c == [when |-> "call", excinfo |-> exc]
                d == item.durations[hook_calls["call"] + 1]
                report == host_report(item, c, d, hook_calls["call"] + 1)
            IN  /\ hook_calls' = Ran("call")
                /\ makereport(c, report, "teardown")
    /\ UNCHANGED <<registry_call, transport, config, slept, item, Defaults, fixtures, t_call, retry_report, stream>>

(***************************************************************************)
(* The retry loop, lines 205-232: preliminary teardown, then either the    *)
(* break on a teardown error or the retried report and the Retrying frame  *)
(***************************************************************************)
\* a loop that goes on after a preliminary teardown that raised
teardown_failed_ignored(t) == FALSE

\* a loop that sends the retried report on every iteration
sends_retried_report_always(n) == TRUE

\* line 217: if t_call.excinfo
teardown_failed(t) == t.excinfo # NoExc

\* line 228: if attempts == 1
sends_retried_report(n) == n = 1

\* line 229: original_report.outcome = Defaults.RETRY_OUTCOME
relabel(report, defaults) == [report EXCEPT !.outcome = defaults.RETRY_OUTCOME]

\* a loop that leaves the label on the report
restore_outcome_omitted(report) == report

\* line 231: original_report.outcome = "failed"
restore_outcome(report) == [report EXCEPT !.outcome = "failed"]

\* pytest_report_teststatus, lines 277-282: the letter of a logged report,
\* "None" when the hook leaves the report to the host
pytest_report_teststatus(report, defaults) ==
    IF report.outcome = defaults.RETRY_OUTCOME THEN "R" ELSE "None"

retry_teardown ==
    /\ pc = "retry_teardown"
    /\ \E exc \in TeardownExc :
         /\ fixtures' = preliminary_teardown(fixtures)
         /\ hook_calls' = Ran("teardown")
         /\ t_call' = [when |-> "teardown", excinfo |-> exc]
         /\ IF teardown_failed(t_call')
            THEN /\ stash' = Put(Put(stash, "outcome_key", "failed"),
                                 "caplog_records_key", "empty")
                 /\ stream' = record_attempt(stream,
                                  log_attempt(attempts, item.name, exc, EXIT))
                 \* break: the wrapper returns, the host logs the call report
                 /\ logreports' = Append(logreports, original_report)
                 /\ pc' = "teardown"
                 /\ UNCHANGED original_report
            ELSE /\ logreports' =
                       IF sends_retried_report(attempts)
                       THEN Append(logreports,
                                   relabel(original_report, Defaults))
                       ELSE logreports
                 /\ original_report' =
                       IF sends_retried_report(attempts)
                       THEN restore_outcome(relabel(original_report, Defaults))
                       ELSE original_report
                 /\ stream' = record_attempt(stream,
                                  log_attempt(attempts, item.name, call.excinfo,
                                              RETRY))
                 /\ pc' = "retry_sleep"
                 /\ UNCHANGED stash
    /\ UNCHANGED <<registry_call, transport, config, slept, item, Defaults, node_stats, call, retry_report,
                   exception_filter, retries, delay, cumulative_timing,
                   attempts, raised>>

\* an iteration that sleeps twice
retry_sleep_twice ==
    /\ pc = "retry_sleep"
    /\ hook_calls' = [hook_calls EXCEPT !["sleep"] = @ + 2]
    /\ slept' = slept + delay + delay
    /\ pc' = "retry_setup"
    /\ UNCHANGED <<registry_call, transport, config, item, Defaults, fixtures, node_stats, stash, call, t_call,
                   original_report, retry_report, exception_filter, retries,
                   delay, cumulative_timing, attempts, logreports, stream,
                   raised>>

\* line 233: sleep(delay)
retry_sleep ==
    /\ pc = "retry_sleep"
    /\ hook_calls' = Ran("sleep")
    /\ slept' = slept + delay
    /\ pc' = "retry_setup"
    /\ UNCHANGED <<registry_call, transport, config, item, Defaults, fixtures, node_stats, stash, call, t_call,
                   original_report, retry_report, exception_filter, retries,
                   delay, cumulative_timing, attempts, logreports, stream,
                   raised>>

\* a retry whose setup is reported and recorded as the host's setup is
retry_setup_recorded ==
    /\ pc = "retry_setup"
    /\ \E exc \in TeardownExc :
         \E reach \in SetupReach(exc) :
            /\ fixtures' = runtest_setup(fixtures, reach)
            /\ hook_calls' = RanSetup(exc)
            /\ node_stats' = [node_stats EXCEPT ![item.name] =
                   record_node_stats(@,
                       from_item_and_call([when |-> "setup", excinfo |-> exc],
                                          1, hook_calls["setup"] + 1))]
    /\ pc' = "retry_call"
    /\ UNCHANGED <<registry_call, transport, config, slept, item, Defaults, stash, call, t_call, original_report,
                   retry_report, exception_filter, retries, delay,
                   cumulative_timing, attempts, logreports, stream, raised>>

\* lines 235-237: item._initrequest(), then the setup hook; its CallInfo is dropped
retry_setup ==
    /\ pc = "retry_setup"
    /\ \E exc \in TeardownExc :
         \E reach \in SetupReach(exc) :
            /\ fixtures' = runtest_setup(fixtures, reach)
            /\ hook_calls' = RanSetup(exc)
    /\ pc' = "retry_call"
    /\ UNCHANGED <<registry_call, transport, config, slept, item, Defaults, node_stats, stash, call, t_call, original_report,
                   retry_report, exception_filter, retries, delay,
                   cumulative_timing, attempts, logreports, stream, raised>>

\* a loop that stops one attempt early
should_keep_retrying_below_bound(report, n, bound, filter, exc) ==
    /\ report.outcome # "passed"
    /\ n < bound
    /\ ExceptionFilter_call(filter, exc)

\* a loop that asks the filter only for the first failure
should_keep_retrying_unfiltered(report, n, bound, filter, exc) ==
    /\ report.outcome # "passed"
    /\ n <= bound

\* a loop that allows one attempt more
should_keep_retrying_one_more(report, n, bound, filter, exc) ==
    /\ report.outcome # "passed"
    /\ n <= bound + 1
    /\ ExceptionFilter_call(filter, exc)

\* lines 248-252
should_keep_retrying(report, n, bound, filter, exc) ==
    /\ report.outcome # "passed"
    /\ n <= bound
    /\ ExceptionFilter_call(filter, exc)

\* a finalization that keeps the first attempt's longrepr
finalize_keeps_longrepr(original, report, cumulative, call_durations) ==
    [original EXCEPT
        !.outcome  = report.outcome,
        !.duration = IF cumulative = FALSE THEN report.duration
                     ELSE SumSeq(call_durations)]

\* a finalization that always takes the last attempt's duration
finalize_overwrites_always(original, report, cumulative, call_durations) ==
    [original EXCEPT
        !.outcome  = report.outcome,
        !.longrepr = report.longrepr,
        !.duration = report.duration]

\* lines 255-262: the original report takes the last attempt's outcome and
\* longrepr, and its duration or the sum of the recorded call durations
finalize(original, report, cumulative, call_durations) ==
    [original EXCEPT
        !.outcome  = report.outcome,
        !.longrepr = report.longrepr,
        !.duration = IF cumulative = FALSE THEN report.duration
                     ELSE SumSeq(call_durations)]

\* lines 238-270: the call hook, its report and stats, the decision to go on,
\* and the finalization of the original report
retry_call ==
    /\ pc = "retry_call"
    /\ \E exc \in CallExc :
         LET c == [when |-> "call", excinfo |-> exc]
             d == item.durations[hook_calls["call"] + 1]
             report == from_item_and_call(c, d, hook_calls["call"] + 1)
             stats == record_node_stats(node_stats[item.name], report)
         IN  /\ call' = c
             /\ retry_report' = report
             /\ node_stats' = [node_stats EXCEPT ![item.name] = stats]
             /\ hook_calls' = Ran("call")
             /\ attempts' = attempts + 1
             /\ IF should_keep_retrying(report, attempts', retries,
                                        exception_filter, exc)
                THEN /\ pc' = "retry_teardown"
                     /\ UNCHANGED <<original_report, stream, logreports>>
                ELSE /\ original_report' =
                           finalize(original_report, report, cumulative_timing,
                                    stats.durations["call"])
                     /\ stream' = record_attempt(stream,
                            log_attempt(attempts', item.name, exc,
                                IF report.outcome = "failed" THEN FAIL ELSE PASS))
                     \* break: the wrapper returns, the host logs the call report
                     /\ logreports' = Append(logreports, original_report')
                     /\ pc' = "teardown"
    /\ UNCHANGED <<registry_call, transport, config, slept, item, Defaults, fixtures, stash, t_call, exception_filter,
                   retries, delay, cumulative_timing, raised>>

(***************************************************************************)
(* The host's teardown stage and its makereport                            *)
(***************************************************************************)
teardown_stage ==
    /\ pc = "teardown"
    /\ \E exc \in TeardownExc, d \in DurationValues, shared \in NextItemShared :
            LET c == [when |-> "teardown", excinfo |-> exc]
                report == host_report(item, c, d, hook_calls["teardown"] + 1)
            IN  /\ fixtures' = runtest_teardown(fixtures, shared)
                /\ hook_calls' = Ran("teardown")
                /\ makereport(c, report, "protocol_end")
    /\ UNCHANGED <<registry_call, transport, config, slept, item, Defaults, t_call, retry_report, stream>>

(***************************************************************************)
(* pytest_runtest_protocol, after its yield                                *)
(***************************************************************************)
pytest_runtest_protocol_end ==
    /\ pc = "protocol_end"
    /\ stash' = Put(Put(Put(stash,
                    "outcome_key", simple_outcome(node_stats[item.name])),
                    "duration_key", simple_duration(node_stats[item.name])),
                    "attempts_key", sum_attempts(node_stats[item.name]))
    /\ pc' = "done"
    /\ UNCHANGED <<registry_call, transport, config, slept, item, Defaults, fixtures, node_stats, call, t_call, original_report,
                   retry_report, exception_filter, retries, delay,
                   cumulative_timing, attempts, logreports, stream, hook_calls,
                   raised>>

Next ==
    \/ pytest_runtest_protocol_begin
    \/ setup_stage
    \/ call_stage
    \/ retry_teardown
    \/ retry_sleep
    \/ retry_setup
    \/ retry_call
    \/ teardown_stage
    \/ pytest_runtest_protocol_end

Spec == Init /\ [][Next]_vars

SpecTiming == InitTiming /\ [][Next]_vars

NextConfig ==
    \/ pytest_configure
    \/ pytest_collection_modifyitems
    \/ Next

SpecConfig == InitConfig /\ [][NextConfig]_vars

(***************************************************************************)
(* The Config Registry on its own: the object `Defaults` of configs.py     *)
(* after its construction, read, extended and assigned to by callers.      *)
(***************************************************************************)
\* names a caller may use: registered from the start, added later, never added
RegistryNames == {"RETRIES", "RETRY_OUTCOME", "FILTERED_EXCEPTIONS",
                  "EXCLUDED_EXCEPTIONS", "TIMEOUT"}

RegistryValues(name) ==
    CASE name \in {"RETRIES", "TIMEOUT"} -> {0, 2}
      [] name = "RETRY_OUTCOME" -> {"rerun"}
      [] OTHER -> {{}, {"ValueError"}}

InitRegistry ==
    /\ pc = "configure"
    /\ item \in {it \in ConfigItems : ~it.flaky}
    /\ Defaults = DEFAULT_CONFIG
    /\ config = [cli |-> <<>>, ini |-> <<>>]
    /\ fixtures = FreshFixtures
    /\ NothingRun
    /\ NoXdist

\* value = Defaults.<name>
Defaults_getattr ==
    \E name \in RegistryNames :
        /\ registry_call' =
              IF getattr_raises(Defaults, name)
              THEN [op |-> "get", name |-> name, before |-> Defaults,
                    raised |-> "UnknownDefaultError"]
              ELSE [op |-> "get", name |-> name, before |-> Defaults,
                    raised |-> NoExc, value |-> getattr(Defaults, name)]
        /\ UNCHANGED <<machine, transport>>

\* Defaults.add(name, value)
Defaults_add ==
    \E name \in RegistryNames : \E value \in RegistryValues(name) :
        /\ registry_call' =
              [op |-> "add", name |-> name, before |-> Defaults, value |-> value,
               raised |-> IF add_raises(Defaults, name) THEN "ValueError"
                          ELSE NoExc]
        /\ Defaults' = add(Defaults, name, value)
        /\ UNCHANGED <<pc, config, slept, item, fixtures, node_stats, stash, call,
                       t_call, original_report, retry_report, exception_filter,
                       retries, delay, cumulative_timing, attempts, logreports,
                       stream, hook_calls, raised, transport>>

\* Defaults.<name> = value
Defaults_setattr ==
    \E name \in RegistryNames : \E value \in RegistryValues(name) :
        /\ registry_call' =
              [op |-> "set", name |-> name, before |-> Defaults, value |-> value,
               raised |-> "ValueError"]
        /\ Defaults' = setattr(Defaults, name, value)
        /\ UNCHANGED <<pc, config, slept, item, fixtures, node_stats, stash, call,
                       t_call, original_report, retry_report, exception_filter,
                       retries, delay, cumulative_timing, attempts, logreports,
                       stream, hook_calls, raised, transport>>

NextRegistry == Defaults_getattr \/ Defaults_add \/ Defaults_setattr

SpecRegistry == InitRegistry /\ [][NextRegistry]_vars

(***************************************************************************)
(* The report transport of a run under xdist.  The controller holds a      *)
(* ReportServer: a listening socket and one listener that accepts a        *)
(* connection, receives from it until end of file and appends what it      *)
(* received to the server's stream (server.py, lines 48-54).  Every worker *)
(* holds a ClientReporter connected to the server.  The controller's main  *)
(* thread builds the final report from the server's stream                 *)
(* (retry_plugin.py, lines 88-99 and 273-274).                             *)
(***************************************************************************)
Workers == {"gw0", "gw1"}

\* the tests xdist hands to each worker, in the order the worker runs them
TestsOf(w) == IF w = "gw0" THEN <<"test_a", "test_b">> ELSE <<"test_c">>

\* results of the frames one test logs, as the loop of lines 205-270 logs
\* them: EXIT alone, or RETRY once or more and then PASS or FAIL
Narratives == {<<EXIT>>, <<RETRY, PASS>>, <<RETRY, RETRY, FAIL>>}

\* the exc a frame is logged with: none for the call that passed
exc_of(result) == IF result = PASS THEN NoExc ELSE "ValueError"

\* str.endswith
endswith(text, suffix) ==
    /\ Len(text) >= Len(suffix)
    /\ SubSeq(text, Len(text) - Len(suffix) + 1, Len(text)) = suffix

\* "".join(lines).encode("utf-8"): the frames as bytes on the wire, each
\* frame in two pieces (name and message; trace and separator), so that
\* what one recv gives need not end where a frame ends
encode(frames) ==
    [i \in 1..(2 * Len(frames)) |->
        LET frame == frames[(i + 1) \div 2]
        IN  [name    |-> frame.name,
             attempt |-> frame.attempt,
             result  |-> frame.result,
             part    |-> IF i % 2 = 1 THEN "message" ELSE "trace"]]

\* a client that sends each frame as it is recorded
ClientReporter_record_attempt_unbuffered(buffer, frame) ==
    [stream |-> <<>>, sendall |-> <<Append(buffer, frame)>>]

\* ClientReporter.record_attempt: the frame is appended to the local
\* stream; unless its message ends with "Retrying!" the whole stream is
\* sent in one sendall and a new, empty stream replaces it
ClientReporter_record_attempt(buffer, frame) ==
    IF ~endswith(frame.message, "Retrying!")
    THEN [stream |-> <<>>, sendall |-> <<Append(buffer, frame)>>]
    ELSE [stream |-> Append(buffer, frame), sendall |-> <<>>]

\* conn.recv(1024): at most this many pieces at once
RecvSize == 2

Min(a, b) == IF a <= b THEN a ELSE b

\* a stream that takes each chunk at its front
stream_write_at_front(text, chunk) == chunk \o text

\* self.stream.write(report_chunk.decode()), line 54
stream_write(text, chunk) == text \o chunk

\* a listener that goes back to accept after every chunk and serves the
\* connection again later
serve_after_chunk_next_connection(srv, w) ==
    [srv EXCEPT !.listener = "accept", !.backlog = Append(@, w)]

\* lines 50-54: after a chunk the inner loop receives from the same
\* connection again
serve_after_chunk(srv, w) == [srv EXCEPT !.listener = "recv", !.conn = w]

NoWorker == "None"

InitXdist ==
    /\ pc = "configure"
    /\ item \in {it \in ConfigItems : ~it.flaky}
    /\ Defaults = DEFAULT_CONFIG
    /\ config = [cli |-> <<>>, ini |-> <<>>]
    /\ fixtures = FreshFixtures
    /\ NothingRun
    /\ \E plan \in [{"test_a", "test_b", "test_c"} -> Narratives] :
          workers = [w \in Workers |->
                        [tests  |-> [i \in DOMAIN TestsOf(w) |->
                                        [name    |-> TestsOf(w)[i],
                                         results |-> plan[TestsOf(w)[i]]]],
                         index  |-> 1,
                         logged |-> 0,
                         stream |-> <<>>]]
    /\ network = [w \in Workers |->
                     [state  |-> "unconnected",
                      bytes  |-> <<>>,
                      writes |-> <<>>,
                      eof    |-> FALSE,
                      conn   |-> "none"]]
    /\ server = [kind |-> "server", sock |-> "unbound", listener |-> "none",
                 backlog |-> <<>>, conn |-> NoWorker, stream |-> <<>>]
    /\ controller = [phase |-> "configure", report |-> <<>>]

\* pytest_configure on the controller, lines 308-311: the server socket is
\* bound and listens, the listener is started
initialize_server ==
    /\ controller.phase = "configure"
    /\ server' = [server EXCEPT !.sock = "listening", !.listener = "accept"]
    /\ controller' = [controller EXCEPT !.phase = "running"]
    /\ UNCHANGED <<machine, registry_call, workers, network>>

\* pytest_configure on a worker, line 314: ClientReporter(port) connects
ClientReporter_init(w) ==
    /\ server.sock = "listening"
    /\ network[w].state = "unconnected"
    /\ network' = [network EXCEPT ![w].state = "pending"]
    /\ server' = [server EXCEPT !.backlog = Append(@, w)]
    /\ UNCHANGED <<machine, registry_call, workers, controller>>

\* one log_attempt of the test a worker is running (lines 219, 232, 264)
\* and the record_attempt it ends with (line 86)
worker_log_attempt(w) ==
    /\ network[w].state # "unconnected"
    /\ ~network[w].eof
    /\ workers[w].index <= Len(workers[w].tests)
    /\ LET test     == workers[w].tests[workers[w].index]
           n        == workers[w].logged + 1
           frame    == log_attempt(n, test.name, exc_of(test.results[n]),
                                   test.results[n])
           recorded == ClientReporter_record_attempt(workers[w].stream, frame)
           last     == n = Len(test.results)
       IN  /\ workers' = [workers EXCEPT
                            ![w].stream = recorded.stream,
                            ![w].logged = IF last THEN 0 ELSE n,
                            ![w].index  = IF last THEN @ + 1 ELSE @]
           /\ network' = [network EXCEPT
                            ![w].writes = @ \o recorded.sendall,
                            ![w].bytes  =
                                IF recorded.sendall = <<>> THEN @
                                ELSE @ \o encode(recorded.sendall[1])]
    /\ UNCHANGED <<machine, registry_call, server, controller>>

\* a worker that has run its tests ends: its socket is closed with it
worker_shutdown(w) ==
    /\ network[w].state # "unconnected"
    /\ ~network[w].eof
    /\ workers[w].index > Len(workers[w].tests)
    /\ network' = [network EXCEPT ![w].eof = TRUE]
    /\ UNCHANGED <<machine, registry_call, workers, server, controller>>

\* line 49, conn, _ = self.sock.accept(): blocks until a connection waits
accept ==
    /\ server.listener = "accept"
    /\ server.sock = "listening"
    /\ server.backlog # <<>>
    /\ LET w == Head(server.backlog)
       IN  /\ server' = [server EXCEPT !.listener = "recv", !.conn = w,
                                       !.backlog = Tail(@)]
           /\ network' = [network EXCEPT ![w].state = "accepted",
                                         ![w].conn = "open"]
    /\ UNCHANGED <<machine, registry_call, workers, controller>>

\* accept on the closed socket fails and the listener ends
accept_fails ==
    /\ server.listener = "accept"
    /\ server.sock = "closed"
    /\ server' = [server EXCEPT !.listener = "exited"]
    /\ UNCHANGED <<machine, registry_call, workers, network, controller>>

\* a listener that leaves the inner loop as soon as nothing waits to be read
recv_leaves_when_idle ==
    /\ server.listener = "recv"
    /\ LET w == server.conn
       IN  \/ \E n \in 1..Min(RecvSize, Len(network[w].bytes)) :
                 LET report_chunk == SubSeq(network[w].bytes, 1, n)
                 IN  /\ network' = [network EXCEPT
                                      ![w].bytes = SubSeq(@, n + 1, Len(@))]
                     /\ server' = serve_after_chunk(
                                      [server EXCEPT !.stream =
                                          stream_write(@, report_chunk)], w)
           \/ /\ network[w].bytes = <<>>
              /\ server' = [server EXCEPT !.listener = "accept"]
              /\ UNCHANGED network
    /\ UNCHANGED <<machine, registry_call, workers, controller>>

\* lines 50-54: recv gives between one piece and RecvSize pieces of what
\* has arrived, or nothing at end of file; then the inner loop is left and
\* conn is not closed
recv ==
    /\ server.listener = "recv"
    /\ LET w == server.conn
       IN  \/ \E n \in 1..Min(RecvSize, Len(network[w].bytes)) :
                 LET report_chunk == SubSeq(network[w].bytes, 1, n)
                 IN  /\ network' = [network EXCEPT
                                      ![w].bytes = SubSeq(@, n + 1, Len(@))]
                     /\ server' = serve_after_chunk(
                                      [server EXCEPT !.stream =
                                          stream_write(@, report_chunk)], w)
           \/ /\ network[w].bytes = <<>>
              /\ network[w].eof
              /\ server' = [server EXCEPT !.listener = "accept"]
              /\ UNCHANGED network
    /\ UNCHANGED <<machine, registry_call, workers, controller>>

\* the controller's session ends its test loop when every worker has ended
pytest_sessionfinish ==
    /\ controller.phase = "running"
    /\ \A w \in Workers : network[w].eof
    /\ controller' = [controller EXCEPT !.phase = "finished"]
    /\ UNCHANGED <<machine, registry_call, workers, network, server>>

\* pytest_terminal_summary, lines 273-274, and build_retry_report, lines
\* 88-99: contents = self.reporter.stream.getvalue()
pytest_terminal_summary ==
    /\ controller.phase = "finished"
    /\ controller' = [controller EXCEPT !.phase = "reported",
                                        !.report = server.stream]
    /\ UNCHANGED <<machine, registry_call, workers, network, server>>

\* session teardown: the accepting socket is closed
close_server_socket ==
    /\ controller.phase = "reported"
    /\ server' = [server EXCEPT !.sock = "closed"]
    /\ controller' = [controller EXCEPT !.phase = "closed"]
    /\ UNCHANGED <<machine, registry_call, workers, network>>

NextXdist ==
    \/ initialize_server
    \/ \E w \in Workers : ClientReporter_init(w)
    \/ \E w \in Workers : worker_log_attempt(w)
    \/ \E w \in Workers : worker_shutdown(w)
    \/ accept
    \/ accept_fails
    \/ recv
    \/ pytest_sessionfinish
    \/ pytest_terminal_summary
    \/ close_server_socket

SpecXdist == InitXdist /\ [][NextXdist]_vars

(***************************************************************************)
(* The retry loop for every value of retries, negative ones included, with *)
(* every host hook call returning: each step of the protocol that can be   *)
(* taken is taken at last.                                                 *)
(***************************************************************************)
\* flaky(retries=n) for n from -1, and flaky()
LoopKwargs == {NoKwargs} \cup {("retries" :> n) : n \in (0 - 1)..MaxRetries}

LoopItems ==
    { [name |-> "test_a", flaky |-> TRUE, own_marker |-> TRUE,
       kwargs |-> k, xfail |-> "none", durations |-> Steady] :
        k \in LoopKwargs }

InitLoop ==
    /\ pc = "protocol"
    /\ item \in LoopItems
    /\ Defaults \in {d \in ConfiguredDefaults : d.EXCLUDED_EXCEPTIONS = {}}
    /\ config = ConfigOf(Defaults)
    /\ fixtures = FreshFixtures
    /\ NothingRun
    /\ NoXdist

SpecLoop == InitLoop /\ [][Next]_vars /\ WF_vars(Next)

(***************************************************************************)
(* Vocabulary of the properties                                            *)
(***************************************************************************)
Started == item.name \in DOMAIN node_stats
Outcomes(stage) == IF Started THEN node_stats[item.name].outcomes[stage] ELSE <<>>
LoopPcs == {"retry_teardown", "retry_sleep", "retry_setup", "retry_call"}
AfterCallPcs == {"teardown", "protocol_end", "done"}
EnteredLoop == attempts >= 1
IsRetried(report) == report.outcome = Defaults.RETRY_OUTCOME
RetriedReports ==
    Cardinality({i \in DOMAIN logreports : IsRetried(logreports[i])})
IsExit(frame) == frame.result = EXIT
ExitFrames == Cardinality({i \in DOMAIN stream : IsExit(stream[i])})
\* the retry bound the item resolves to: the marker's argument, else the default
ResolvedRetries == kwargs_get(item.kwargs, "retries", Defaults.RETRIES)
MarkerOnlyOn == kwargs_get(item.kwargs, "only_on", {})
MarkerExclude == kwargs_get(item.kwargs, "exclude", {})
LocalScopes == {"function", "class", "module"}
\* the call-stage reports among the logged ones, and the last of them
CallReports == {i \in DOMAIN logreports : logreports[i].when = "call"}
FinalCallReport ==
    logreports[CHOOSE i \in CallReports : \A j \in CallReports : j <= i]

(***************************************************************************)
(* C1.  A test whose resolved retry bound is R >= 0 executes its call      *)
(* stage at most R+1 times; with R = 0 the first failure is final.         *)
(* The code runs the loop body once before it compares attempts with       *)
(* retries, so a marked test with R = 0 executes its call stage twice.     *)
(***************************************************************************)
C1_AttemptsAtMostRetriesPlusOne ==
    ResolvedRetries >= 0 => hook_calls["call"] <= ResolvedRetries + 1

(***************************************************************************)
(* C2.  The retried outcome is logged exactly once for a test that         *)
(* executed at least one retry attempt, and never for one that executed    *)
(* none.  (Between the log and the retry attempt's call the report is      *)
(* already out; the count is never above one.)                             *)
(***************************************************************************)
C2_RetriedLoggedOnce ==
    /\ RetriedReports <= 1
    /\ hook_calls["call"] >= 2 => RetriedReports = 1
    /\ (pc \notin {"retry_sleep", "retry_setup", "retry_call"}
            /\ hook_calls["call"] <= 1) => RetriedReports = 0

C2_Witness ==
    /\ pc = "done"
    /\ hook_calls["call"] = 3
    /\ RetriedReports = 1
    /\ stash["outcome_key"] = "failed"

(***************************************************************************)
(* C3.  When the loop finalizes after a retry attempt, the call report the *)
(* host logs carries the outcome and longrepr of the last attempt: passed  *)
(* when the last attempt did not raise, failed when it raised an error.    *)
(***************************************************************************)
Finalized ==
    /\ pc = "teardown"
    /\ hook_calls["call"] >= 2
    /\ ~IsExit(Last(stream))

C3_ReportOfLastAttempt ==
    Finalized =>
        /\ Last(logreports) = original_report
        /\ original_report.when = "call"
        /\ original_report.outcome = retry_report.outcome
        /\ original_report.longrepr = retry_report.longrepr
        /\ Last(Outcomes("call")) = original_report.outcome
        /\ call.excinfo = NoExc =>
               /\ original_report.outcome = "passed"
               /\ original_report.longrepr.exc = NoExc
        /\ call.excinfo \in ExcClasses =>
               /\ original_report.outcome = "failed"
               /\ original_report.longrepr =
                      [exc |-> call.excinfo, n |-> hook_calls["call"]]

C3_Witness ==
    /\ Finalized
    /\ hook_calls["call"] = 3
    /\ original_report.outcome = "passed"
    /\ Outcomes("call") = <<"failed", "failed", "passed">>

(***************************************************************************)
(* C4.  A test skipped in setup, or whose first call report is skipped     *)
(* (the call raised Skipped, or the test is xfail-marked and raised),      *)
(* never enters the retry loop and never produces a retried report.        *)
(***************************************************************************)
FirstReportSkipped ==
    \/ Contains(Outcomes("setup"), "skipped")
    \/ (Outcomes("call") # <<>> /\ Outcomes("call")[1] = "skipped")

C4_SkippedNeverRetried ==
    FirstReportSkipped =>
        /\ ~EnteredLoop
        /\ pc \notin LoopPcs
        /\ hook_calls["call"] <= 1
        /\ hook_calls["sleep"] = 0
        /\ RetriedReports = 0
        /\ stream = <<>>

C4_Witness ==
    /\ pc = "done"
    /\ item.flaky
    /\ item.xfail = "xfail"
    /\ "retries" \in DOMAIN item.kwargs /\ item.kwargs["retries"] = 2
    /\ Outcomes("call") = <<"skipped">>
    /\ RetriedReports = 0

(***************************************************************************)
(* C5.  Only a call stage that raised triggers a retry: while the loop     *)
(* runs, and whenever a retried report or a frame exists, the report that  *)
(* triggered it is the call report of a call that raised, the setup passed *)
(* and no teardown report exists yet; a failed setup and a strict xfail    *)
(* that passes are final.                                                  *)
(***************************************************************************)
StrictXpass ==
    \E i \in DOMAIN logreports : logreports[i].longrepr.exc = "XPASS(strict)"

C5_OnlyRaisingCallRetried ==
    /\ (pc \in LoopPcs \/ EnteredLoop \/ RetriedReports > 0 \/ stream # <<>>) =>
          /\ Outcomes("setup") = <<"passed">>
          /\ Outcomes("call") # <<>>
          /\ Outcomes("call")[1] = "failed"
          /\ ~StrictXpass
          /\ \A i \in DOMAIN logreports :
                IsRetried(logreports[i]) =>
                    /\ logreports[i].when = "call"
                    /\ logreports[i].longrepr.exc \in ExcClasses
    /\ pc \in LoopPcs =>
          /\ original_report.when = "call"
          /\ call.when = "call"
          /\ call.excinfo # NoExc
          /\ Outcomes("teardown") = <<>>
    /\ (Contains(Outcomes("setup"), "failed") \/ StrictXpass) =>
          /\ ~EnteredLoop
          /\ hook_calls["call"] <= 1
          /\ RetriedReports = 0

C5_Witness ==
    /\ pc = "done"
    /\ item.flaky
    /\ item.xfail = "strict"
    /\ StrictXpass
    /\ Outcomes("call") = <<"failed">>
    /\ Len(Outcomes("teardown")) = 1
    /\ hook_calls["call"] = 1
    /\ RetriedReports = 0

(***************************************************************************)
(* C6.  Once the preliminary teardown after failed attempt N has raised,   *)
(* no further setup or call stage runs, exactly one "teardown failed on    *)
(* attempt N" frame exists and it is the last frame, the call report is    *)
(* logged failed and the derived final outcome is failed; when N = 1 no    *)
(* retried report exists.                                                  *)
(***************************************************************************)
PreliminaryTeardownRaised ==
    /\ t_call.excinfo # NoExc
    /\ Outcomes("call") # <<>>
    /\ Last(Outcomes("call")) = "failed"

C6_TeardownFailureIsFinal ==
    PreliminaryTeardownRaised =>
        /\ pc \in AfterCallPcs
        /\ hook_calls["call"] = attempts
        /\ hook_calls["setup"] = attempts
        /\ Len(Outcomes("call")) = attempts
        /\ ExitFrames = 1
        /\ IsExit(Last(stream))
        /\ Last(stream).attempt = attempts
        /\ Last(stream).message
               = " teardown failed on attempt {attempt}! Exiting immediately!"
        /\ CallReports # {}
        /\ FinalCallReport.outcome = "failed"
        /\ pc = "teardown" => stash["outcome_key"] = "failed"
        /\ pc = "done" => stash["outcome_key"] = "failed"
        /\ "caplog_records_key" \in DOMAIN stash
        /\ attempts = 1 => RetriedReports = 0

C6_Witness ==
    /\ PreliminaryTeardownRaised
    /\ pc = "done"
    /\ attempts = 2
    /\ Outcomes("teardown") = <<"passed">>
    /\ RetriedReports = 1

(***************************************************************************)
(* C7.  A retry attempt whose call raises Skipped is terminal: no further  *)
(* attempt runs, and the test is reported skipped.                         *)
(* The loop goes on whenever the report is not passed, so it runs another  *)
(* attempt after a skipped one while attempts <= retries.                  *)
(***************************************************************************)
C7_SkippedRetryIsTerminal ==
    \A i \in DOMAIN Outcomes("call") :
        (i >= 2 /\ Outcomes("call")[i] = "skipped") =>
            /\ i = Len(Outcomes("call"))
            /\ pc \notin LoopPcs
            /\ hook_calls["call"] = i

Accepts(only_on, exclude, e) ==
    IF only_on # {} THEN e \in only_on
    ELSE IF exclude # {} THEN e \notin exclude
    ELSE TRUE

MarkerFilterEmpty == MarkerOnlyOn = {} /\ MarkerExclude = {}

Eligible(e) ==
    IF ~MarkerFilterEmpty THEN Accepts(MarkerOnlyOn, MarkerExclude, e)
    ELSE Accepts(Defaults.FILTERED_EXCEPTIONS, Defaults.EXCLUDED_EXCEPTIONS, e)

\* the call stage of a marked test has just raised an error and the wrapper
\* has either entered the loop or returned
FirstFailureDecided ==
    /\ pc \in {"teardown", "retry_teardown"}
    /\ hook_calls["call"] = 1
    /\ hook_calls["teardown"] = 0
    /\ call.when = "call"
    /\ call.excinfo \in ExcClasses
    /\ item.flaky
    /\ item.xfail = "none"
    /\ ~("condition" \in DOMAIN item.kwargs /\ item.kwargs["condition"] = FALSE)

C9_MarkerFilterOverridesGlobal ==
    FirstFailureDecided => (pc = "retry_teardown" <=> Eligible(call.excinfo))

C9_Witness ==
    /\ FirstFailureDecided
    /\ pc = "retry_teardown"
    /\ MarkerOnlyOn = {"ValueError"}
    /\ Defaults.EXCLUDED_EXCEPTIONS = {"ValueError"}
    /\ call.excinfo = "ValueError"

(***************************************************************************)
(* C10.  The filter built from (only_on, exclude) answers true for every   *)
(* class when both are empty, e in only_on when only_on is non-empty and   *)
(* e not in exclude when exclude is non-empty; it is truthy exactly when   *)
(* one of them is non-empty; and building it from two non-empty            *)
(* collections raises ConfigurationError.                                  *)
(***************************************************************************)
\* the pair of collections the filter in use is built from
BuiltFromOnlyOn ==
    IF ~MarkerFilterEmpty THEN MarkerOnlyOn ELSE Defaults.FILTERED_EXCEPTIONS
BuiltFromExclude ==
    IF ~MarkerFilterEmpty THEN MarkerExclude ELSE Defaults.EXCLUDED_EXCEPTIONS

FilterBuilt ==
    \/ EnteredLoop
    \/ (FirstFailureDecided /\ pc = "teardown")

C10_ExceptionFilterAnswers ==
    /\ FilterBuilt =>
          /\ ~(BuiltFromOnlyOn # {} /\ BuiltFromExclude # {})
          /\ \A e \in ExcClasses \cup {Skipped} :
                ExceptionFilter_call(exception_filter, e)
                    = Accepts(BuiltFromOnlyOn, BuiltFromExclude, e)
          /\ ExceptionFilter_bool(exception_filter)
                = (BuiltFromOnlyOn # {} \/ BuiltFromExclude # {})
          /\ (pc = "retry_call" /\ hook_calls["call"] >= 2) =>
                Accepts(BuiltFromOnlyOn, BuiltFromExclude, call.excinfo)
    /\ pc = "error" =>
          /\ raised = ConfigurationError
          /\ BuiltFromOnlyOn # {} /\ BuiltFromExclude # {}
    /\ raised = ConfigurationError => pc = "error"

C10_Witness ==
    /\ pc = "retry_call"
    /\ hook_calls["call"] = 2
    /\ BuiltFromOnlyOn = {}
    /\ BuiltFromExclude = {"ValueError"}
    /\ call.excinfo = "IndexError"

(***************************************************************************)
(* C14.  A marked test whose marker has condition False never enters the   *)
(* retry loop: its call stage runs once, no retried report and no frame    *)
(* exists, and its failed call report is the one logged; with condition    *)
(* True or absent, a first failure the filter accepts enters the loop with *)
(* the marker's retries.                                                   *)
(***************************************************************************)
ConditionFalse ==
    /\ item.flaky
    /\ "condition" \in DOMAIN item.kwargs
    /\ item.kwargs["condition"] = FALSE

C14_ConditionFalseDisablesRetry ==
    /\ ConditionFalse =>
          /\ ~EnteredLoop
          /\ pc \notin LoopPcs
          /\ hook_calls["call"] <= 1
          /\ hook_calls["sleep"] = 0
          /\ RetriedReports = 0
          /\ stream = <<>>
          /\ (pc \in AfterCallPcs /\ call.when = "call"
                  /\ call.excinfo \in ExcClasses /\ item.xfail = "none") =>
                FinalCallReport.outcome = "failed"
    /\ (FirstFailureDecided /\ Eligible(call.excinfo)) =>
          /\ pc = "retry_teardown"
          /\ attempts = 1
          /\ retries = ResolvedRetries

C14_Witness ==
    /\ ConditionFalse
    /\ pc = "done"
    /\ item.xfail = "none"
    /\ "retries" \in DOMAIN item.kwargs /\ item.kwargs["retries"] = 2
    /\ MarkerFilterEmpty
    /\ Defaults.FILTERED_EXCEPTIONS = {} /\ Defaults.EXCLUDED_EXCEPTIONS = {}
    /\ Outcomes("call") = <<"failed">>
    /\ FinalCallReport.longrepr.exc = "ValueError"
    /\ stash["outcome_key"] = "failed"

(***************************************************************************)
(* C17.  When the protocol of a test has ended, outcome_key is: skipped if *)
(* a recorded setup outcome is skipped; else failed if a setup outcome is  *)
(* failed, or the last call outcome is failed, or no call outcome was      *)
(* recorded, or a teardown outcome is failed; else passed.                 *)
(***************************************************************************)
Recorded(stage, outcome) ==
    \E i \in DOMAIN Outcomes(stage) : Outcomes(stage)[i] = outcome

ClaimedFinalOutcome ==
    IF Recorded("setup", "skipped") THEN "skipped"
    ELSE IF \/ Recorded("setup", "failed")
            \/ Len(Outcomes("call")) = 0
            \/ Outcomes("call")[Len(Outcomes("call"))] = "failed"
            \/ Recorded("teardown", "failed")
         THEN "failed"
    ELSE "passed"

SkippedInSetup == Recorded("setup", "skipped")
SkippedInCall ==
    /\ item.xfail = "none"
    /\ Outcomes("call") = <<"skipped">>

C18_SkippedTestEndsSkipped ==
    (pc = "done" /\ (SkippedInSetup \/ SkippedInCall)) =>
        stash["outcome_key"] = "skipped"

(***************************************************************************)
(* C19.  When the protocol of a test has ended, attempts_key is the number *)
(* of executions of its call stage: 0 when the setup did not pass, 1 when  *)
(* the retry loop was not entered or broke on its first preliminary        *)
(* teardown, and k when k attempts ran.                                    *)
(***************************************************************************)
C19_AttemptsKeyCountsCalls ==
    pc = "done" =>
        /\ stash["attempts_key"] = hook_calls["call"]
        /\ stash["attempts_key"] = Len(Outcomes("call"))
        /\ Outcomes("setup") # <<"passed">> => stash["attempts_key"] = 0
        /\ (Outcomes("setup") = <<"passed">> /\ hook_calls["sleep"] = 0) =>
              stash["attempts_key"] = 1
        /\ hook_calls["sleep"] > 0 =>
              stash["attempts_key"] = hook_calls["sleep"] + 1

C19_Witness ==
    /\ pc = "done"
    /\ stash["attempts_key"] = 3
    /\ hook_calls["call"] = 3
    /\ Outcomes("call") = <<"failed", "failed", "passed">>

(***************************************************************************)
(* C20.  While the final teardown stage of a test runs, outcome_key is the *)
(* outcome of the most recent execution of its call stage: passed when the *)
(* last attempt passed, failed when it failed.                             *)
(* The stash is written from the first call report and not again when the  *)
(* loop finalizes, so a test that passed on a retry still shows failed.    *)
(***************************************************************************)
C20_OutcomeKeyDuringTeardown ==
    (pc = "teardown" /\ Len(Outcomes("call")) > 0
        /\ Last(Outcomes("call")) \in {"passed", "failed"}) =>
            stash["outcome_key"] = Last(Outcomes("call"))

(***************************************************************************)
(* C11.  For a test that enters the retry loop, each of retries, delay and *)
(* cumulative_timing is the marker's keyword argument when the marker      *)
(* gives it and the registry's value otherwise, each on its own; the time  *)
(* slept is the resolved delay per sleep.                                  *)
(***************************************************************************)
MarkerGives(key) == key \in DOMAIN item.kwargs

C11_MarkerArgumentsOverrideRegistry ==
    EnteredLoop =>
        /\ MarkerGives("retries") => retries = item.kwargs["retries"]
        /\ ~MarkerGives("retries") => retries = Defaults.RETRIES
        /\ MarkerGives("delay") => delay = item.kwargs["delay"]
        /\ ~MarkerGives("delay") => delay = Defaults.RETRY_DELAY
        /\ MarkerGives("cumulative_timing") =>
              cumulative_timing = item.kwargs["cumulative_timing"]
        /\ ~MarkerGives("cumulative_timing") =>
              cumulative_timing = Defaults.CUMULATIVE_TIMING
        /\ MarkerGives("delay") =>
              slept = hook_calls["sleep"] * item.kwargs["delay"]
        /\ ~MarkerGives("delay") =>
              slept = hook_calls["sleep"] * Defaults.RETRY_DELAY

C11_Witness ==
    /\ pc = "done"
    /\ EnteredLoop
    /\ DOMAIN item.kwargs = {"delay"}
    /\ Defaults.RETRIES = 0
    /\ Defaults.RETRY_DELAY = 1
    /\ Defaults.CUMULATIVE_TIMING = TRUE
    /\ retries = 0
    /\ delay = 2
    /\ cumulative_timing = TRUE
    /\ slept = 2

(***************************************************************************)
(* C15.  Each iteration of the retry loop runs preliminary teardown, the   *)
(* Retrying frame, one sleep of delay seconds, setup and call, in this     *)
(* order: the counts of the steps at each position of the loop are those   *)
(* of that order, one sleep lies between two consecutive executions of the *)
(* call stage, and a test with k call executions has slept k-1 times.      *)
(***************************************************************************)
IsRetrying(frame) == frame.result = RETRY
RetryingFrames == Cardinality({i \in DOMAIN stream : IsRetrying(stream[i])})

C15_IterationOrder ==
    LET k == hook_calls["call"] IN
    /\ slept = hook_calls["sleep"] * delay
    /\ pc = "retry_teardown" =>
          /\ hook_calls["teardown"] = k - 1
          /\ RetryingFrames = k - 1
          /\ hook_calls["sleep"] = k - 1
          /\ hook_calls["setup"] = k
    /\ pc = "retry_sleep" =>
          /\ hook_calls["teardown"] = k
          /\ RetryingFrames = k
          /\ IsRetrying(Last(stream)) /\ Last(stream).attempt = k
          /\ hook_calls["sleep"] = k - 1
          /\ hook_calls["setup"] = k
    /\ pc = "retry_setup" =>
          /\ hook_calls["teardown"] = k
          /\ RetryingFrames = k
          /\ hook_calls["sleep"] = k
          /\ hook_calls["setup"] = k
    /\ pc = "retry_call" =>
          /\ hook_calls["teardown"] = k
          /\ RetryingFrames = k
          /\ hook_calls["sleep"] = k
          /\ hook_calls["setup"] = k + 1
    /\ (pc \in AfterCallPcs /\ k >= 1) =>
          /\ hook_calls["sleep"] = k - 1
          /\ RetryingFrames = k - 1
    /\ k = 0 => hook_calls["sleep"] = 0

C15_Witness ==
    /\ pc = "done"
    /\ hook_calls["call"] = 3
    /\ hook_calls["sleep"] = 2
    /\ delay = 2
    /\ slept = 4
    /\ RetryingFrames = 2

(***************************************************************************)
(* C16.  When the loop has finalized after a retry attempt, the duration   *)
(* of the call report that is logged is the duration of the last attempt's *)
(* call when cumulative_timing is false, and the sum of the durations of   *)
(* the calls of all attempts otherwise.                                    *)
(***************************************************************************)
RECURSIVE CallDurationsUpTo(_)
CallDurationsUpTo(n) ==
    IF n = 0 THEN 0 ELSE item.durations[n] + CallDurationsUpTo(n - 1)

C16_DurationByTimingMode ==
    Finalized =>
        /\ Last(logreports).when = "call"
        /\ cumulative_timing = FALSE =>
              Last(logreports).duration = item.durations[hook_calls["call"]]
        /\ cumulative_timing = TRUE =>
              Last(logreports).duration = CallDurationsUpTo(hook_calls["call"])

C16_Witness ==
    /\ Finalized
    /\ item.durations = Shrinking
    /\ cumulative_timing = TRUE
    /\ hook_calls["call"] = 3
    /\ Last(logreports).outcome = "passed"
    /\ Last(logreports).duration =
           Shrinking[1] + Shrinking[2] + Shrinking[3]
    /\ Last(logreports).duration > Shrinking[1]

(***************************************************************************)
(* C12.  After configure, each of RETRIES, RETRY_DELAY, CUMULATIVE_TIMING  *)
(* and RETRY_OUTCOME is, on its own, the command-line value when the       *)
(* option was passed, else the ini value when the ini file sets that key,  *)
(* else the built-in default.                                              *)
(* configure reads the ini file only when the ini file sets retries, so an *)
(* ini file that sets retry_delay, cumulative_timing or retry_outcome      *)
(* without retries leaves those at their built-in defaults.                *)
(***************************************************************************)
RegistryKeys == {"RETRIES", "RETRY_DELAY", "CUMULATIVE_TIMING", "RETRY_OUTCOME"}

\* the value an ini text stands for
IniValue(name) ==
    IF name \in {"retries", "retry_delay"} THEN int[config.ini[name]]
    ELSE IF name = "cumulative_timing" THEN config.ini[name] = "true"
    ELSE config.ini[name]

ClaimedDefault(key) ==
    IF lower[key] \in DOMAIN config.cli THEN getoption(config, lower[key])
    ELSE IF lower[key] \in DOMAIN config.ini THEN IniValue(lower[key])
    ELSE DEFAULT_CONFIG[key]

C12_CliOverIniOverBuiltin ==
    pc # "configure" => \A key \in RegistryKeys : Defaults[key] = ClaimedDefault(key)

(***************************************************************************)
(* C13.  A test without its own flaky marker enters the retry loop only if *)
(* the global retries value (command line, else ini) is not zero; with     *)
(* --retries 0 on the command line no such test is retried, whatever the   *)
(* ini file sets.                                                          *)
(* The marker is added when the command-line value or the ini text is      *)
(* truthy, with retries = Defaults.RETRIES; with --retries 0 and an ini    *)
(* retries the test is marked flaky(retries=0), and the loop runs once     *)
(* before it compares attempts with retries.                               *)
(***************************************************************************)
GlobalRetries ==
    IF "retries" \in DOMAIN config.cli THEN int[config.cli["retries"]]
    ELSE IF "retries" \in DOMAIN config.ini THEN int[config.ini["retries"]]
    ELSE 0

Retried == EnteredLoop \/ hook_calls["call"] >= 2 \/ RetriedReports > 0

C13_GlobalRetryNeedsNonZeroRetries ==
    ~item.own_marker =>
        /\ Retried => GlobalRetries # 0
        /\ ("retries" \in DOMAIN config.cli /\ config.cli["retries"] = "0") =>
              ~Retried

(***************************************************************************)
(* C25.  A test with retry bound R >= 1 whose call failed on every attempt *)
(* with a class the filter accepts, and whose preliminary teardowns did    *)
(* not raise, has executed its call stage exactly R+1 times when the loop  *)
(* is over; and no call stage runs after an attempt that passed, so a test *)
(* that first passes on attempt k has executed exactly k call stages,      *)
(* k <= R+1.                                                               *)
(***************************************************************************)
AcceptedByFilter(e) == Accepts(BuiltFromOnlyOn, BuiltFromExclude, e)

FailedEveryAttempt ==
    /\ \A i \in DOMAIN Outcomes("call") : Outcomes("call")[i] = "failed"
    /\ \A i \in DOMAIN stream : stream[i].trace \in ExcClasses
                                   /\ AcceptedByFilter(stream[i].trace)
    /\ ExitFrames = 0

C25_LoopRunsToTheBound ==
    /\ (pc \in AfterCallPcs /\ EnteredLoop /\ retries >= 1 /\ FailedEveryAttempt)
            => hook_calls["call"] = retries + 1
    /\ \A k \in DOMAIN Outcomes("call") :
            Outcomes("call")[k] = "passed" =>
                /\ k = Len(Outcomes("call"))
                /\ hook_calls["call"] = k
                /\ pc \notin LoopPcs
                /\ (EnteredLoop /\ retries >= 1) => k <= retries + 1

C25_Witness ==
    /\ pc = "done"
    /\ retries = 2
    /\ FailedEveryAttempt
    /\ ~MarkerFilterEmpty
    /\ Outcomes("call") = <<"failed", "failed", "failed">>
    /\ hook_calls["call"] = 3

(***************************************************************************)
(* C26.  The loop goes on after a failed retry attempt only if the filter  *)
(* accepts the class that attempt raised: every Retrying frame carries an  *)
(* accepted class, and when a retry attempt raised a rejected class the    *)
(* test is finalized at once, also with attempts <= retries, as failed     *)
(* with that attempt's outcome and longrepr.                               *)
(***************************************************************************)
RejectedRetry ==
    /\ Finalized
    /\ call.excinfo \in ExcClasses
    /\ ~AcceptedByFilter(call.excinfo)

C26_RejectedClassEndsLoop ==
    /\ \A i \in DOMAIN stream :
          stream[i].result = RETRY => AcceptedByFilter(stream[i].trace)
    /\ (pc = "retry_teardown" /\ hook_calls["call"] >= 2) =>
          AcceptedByFilter(call.excinfo)
    /\ RejectedRetry =>
          /\ original_report.outcome = "failed"
          /\ original_report.longrepr =
                 [exc |-> call.excinfo, n |-> hook_calls["call"]]
          /\ Last(logreports) = original_report
          /\ Last(stream).result = FAIL
          /\ Last(stream).attempt = hook_calls["call"]
          /\ Last(stream).trace = call.excinfo

C26_Witness ==
    /\ RejectedRetry
    /\ hook_calls["call"] = 2
    /\ attempts = 2
    /\ retries = 2
    /\ MarkerOnlyOn = {"ValueError"}
    /\ call.excinfo = "IndexError"
    /\ original_report.outcome = "failed"

(***************************************************************************)
(* C27.  The frames of a test that entered the retry loop are Retrying     *)
(* frames numbered 1, 2, ..., m in this order, then, once the loop is      *)
(* over, one terminal frame numbered m+1 and nothing after it; the number  *)
(* of frames is then the number of executions of the call stage.  A test   *)
(* that did not enter the loop has no frame.                               *)
(***************************************************************************)
C27_FramesOfATest ==
    /\ ~EnteredLoop => stream = <<>>
    /\ \A i \in DOMAIN stream :
          /\ stream[i].attempt = i
          /\ stream[i].name = item.name
          /\ i < Len(stream) => stream[i].result = RETRY
    /\ pc \in LoopPcs => \A i \in DOMAIN stream : stream[i].result = RETRY
    /\ (EnteredLoop /\ pc \in AfterCallPcs) =>
          /\ stream # <<>>
          /\ Last(stream).result \in {PASS, FAIL, EXIT}
          /\ Len(stream) = hook_calls["call"]

C27_Witness ==
    /\ pc = "done"
    /\ Len(stream) = 3
    /\ stream[1].result = RETRY /\ stream[2].result = RETRY
    /\ stream[3].result = PASS
    /\ stream[3].attempt = 3
    /\ hook_calls["call"] = 3

(***************************************************************************)
(* C28.  When the protocol of a test has ended, as many setup outcomes as  *)
(* teardown outcomes are recorded, and as many as attempts were executed.  *)
(* Only the host's own setup and teardown reports are recorded: the setup  *)
(* of a retry (its CallInfo is dropped) and the preliminary teardown are   *)
(* not, so a test that ran k attempts has one setup and one teardown       *)
(* outcome.                                                                *)
(***************************************************************************)
C28_SetupAndTeardownPerAttempt ==
    pc = "done" =>
        /\ Len(Outcomes("setup")) = Len(Outcomes("teardown"))
        /\ Len(Outcomes("setup")) = hook_calls["setup"]

(***************************************************************************)
(* C24.  On the Config Registry a read of a name that is not registered    *)
(* fails with the unknown-option error and a read of a registered name     *)
(* gives the stored value; add of a name that is present fails; every      *)
(* direct assignment fails; and whenever one of these calls failed the     *)
(* stored options are what they were before the call.                      *)
(***************************************************************************)
RegistryCallFailed == registry_call.raised # NoExc

C24_RegistryFailuresChangeNothing ==
    /\ registry_call.op = "get" =>
          /\ registry_call.name \notin DOMAIN registry_call.before
                <=> registry_call.raised = "UnknownDefaultError"
          /\ ~RegistryCallFailed =>
                registry_call.value = Defaults[registry_call.name]
    /\ registry_call.op = "add" =>
          /\ registry_call.name \in DOMAIN registry_call.before
                <=> registry_call.raised = "ValueError"
          /\ ~RegistryCallFailed =>
                /\ DOMAIN Defaults =
                       DOMAIN registry_call.before \cup {registry_call.name}
                /\ Defaults[registry_call.name] = registry_call.value
                /\ \A k \in DOMAIN registry_call.before :
                       Defaults[k] = registry_call.before[k]
    /\ registry_call.op = "set" => registry_call.raised = "ValueError"
    /\ RegistryCallFailed => Defaults = registry_call.before

C24_Witness ==
    /\ registry_call.op = "add"
    /\ registry_call.name = "FILTERED_EXCEPTIONS"
    /\ registry_call.raised = "ValueError"
    /\ registry_call.value = {}
    /\ Defaults["FILTERED_EXCEPTIONS"] = {"ValueError"}
    /\ "TIMEOUT" \notin DOMAIN Defaults

(***************************************************************************)
(* Vocabulary of the claims about the report transport.                    *)
(***************************************************************************)
TestNames == UNION {{TestsOf(w)[i] : i \in DOMAIN TestsOf(w)} : w \in Workers}

WorkerOf(name) == CHOOSE w \in Workers : \E i \in DOMAIN TestsOf(w) : TestsOf(w)[i] = name

\* the place of a test in the order its worker runs its tests in
TestIndex(name) ==
    CHOOSE i \in DOMAIN TestsOf(WorkerOf(name)) : TestsOf(WorkerOf(name))[i] = name

PositionsOf(buffer, name) == {i \in DOMAIN buffer : buffer[i].name = name}

Contiguous(positions) ==
    \A i \in positions : \A j \in positions : \A k \in i..j : k \in positions

\* piece p comes before piece q in the narrative of one test
EarlierInTest(p, q) ==
    \/ p.attempt < q.attempt
    \/ p.attempt = q.attempt /\ p.part = "message" /\ q.part = "trace"

\* the pieces a worker has sent so far
Sent(w) ==
    UNION {{encode(network[w].writes[k])[i] :
                i \in DOMAIN encode(network[w].writes[k])} :
           k \in DOMAIN network[w].writes}

Received(buffer) == {buffer[i] : i \in DOMAIN buffer}

\* the frames the plan of test number k of worker w gives, as they are logged
PlannedFrame(w, k, n) ==
    [name    |-> workers[w].tests[k].name,
     attempt |-> n,
     result  |-> workers[w].tests[k].results[n]]

SameFrame(frame, planned) ==
    /\ frame.name = planned.name
    /\ frame.attempt = planned.attempt
    /\ frame.result = planned.result

EndsInRetrying(frame) == frame.result = RETRY

(***************************************************************************)
(* C21.  In the controller's buffer the pieces of the frames of one test   *)
(* are next to each other: nothing of another test, of the same or of      *)
(* another worker, stands between two of them, whatever the order of the   *)
(* workers' sends and of the listener's receives.                          *)
(***************************************************************************)
C21_FramesOfATestAreContiguous ==
    \A name \in TestNames :
        /\ Contiguous(PositionsOf(server.stream, name))
        /\ Contiguous(PositionsOf(controller.report, name))

C21_Witness ==
    /\ \A w \in Workers : network[w].bytes = <<>> /\ network[w].eof
    /\ \A w \in Workers : \A k \in DOMAIN workers[w].tests :
          Len(workers[w].tests[k].results) = 3
    /\ Len(server.stream) = 18
    /\ server.stream[1].name = "test_a"
    /\ server.stream[7].name = "test_b"
    /\ server.stream[13].name = "test_c"

(***************************************************************************)
(* C22.  In the controller's buffer the pieces of one test stand in the    *)
(* order of its attempts, the terminal frame last, and the tests of one    *)
(* worker stand in the order in which the worker ran them; every piece     *)
(* stands there once.  Between the tests of two workers there is no order  *)
(* (the witness has the second worker's test first).                       *)
(***************************************************************************)
C22_OrderWithinTestAndWorker ==
    \A i \in DOMAIN server.stream : \A j \in DOMAIN server.stream :
        LET p == server.stream[i]
            q == server.stream[j]
        IN  (i < j /\ WorkerOf(p.name) = WorkerOf(q.name)) =>
                \/ TestIndex(p.name) < TestIndex(q.name)
                \/ /\ p.name = q.name
                   /\ EarlierInTest(p, q)
                   /\ p.attempt < q.attempt => p.result = RETRY

C22_Witness ==
    /\ Len(server.stream) = 14
    /\ server.stream[1].name = "test_c"
    /\ server.stream[4] = [name |-> "test_c", attempt |-> 2, result |-> PASS,
                           part |-> "trace"]
    /\ server.stream[5].name = "test_a"
    /\ server.stream[11].name = "test_b"
    /\ server.stream[14].result = FAIL

(***************************************************************************)
(* C29.  A worker's client sends exactly when the frame it has just        *)
(* recorded does not end in "Retrying!": the writes it has made are one    *)
(* per test it has finished, each write the whole narrative of that test,  *)
(* and its local buffer holds the frames logged so far of the test it is   *)
(* running, all of them Retrying frames, of which nothing has been sent.   *)
(***************************************************************************)
C29_ClientSendsAtEndOfTest ==
    \A w \in Workers :
        LET client == workers[w]
            writes == network[w].writes
        IN  /\ Len(writes) = client.index - 1
            /\ \A k \in DOMAIN writes :
                  /\ Len(writes[k]) = Len(client.tests[k].results)
                  /\ \A n \in DOMAIN writes[k] :
                        /\ SameFrame(writes[k][n], PlannedFrame(w, k, n))
                        /\ endswith(writes[k][n].message, "Retrying!")
                              <=> n < Len(writes[k])
            /\ Len(client.stream) = client.logged
            /\ \A n \in DOMAIN client.stream :
                  /\ SameFrame(client.stream[n], PlannedFrame(w, client.index, n))
                  /\ endswith(client.stream[n].message, "Retrying!")
            /\ client.logged > 0 =>
                  \A p \in Sent(w) \cup Received(server.stream) :
                      p.name # client.tests[client.index].name

C29_Witness ==
    /\ workers["gw0"].index = 2
    /\ workers["gw0"].logged = 2
    /\ Len(workers["gw0"].stream) = 2
    /\ workers["gw0"].stream[2].name = "test_b"
    /\ Len(network["gw0"].writes) = 1
    /\ Len(network["gw0"].writes[1]) = 2
    /\ network["gw0"].writes[1][2].result = PASS

(***************************************************************************)
(* C23.  When the session has ended (the accepting socket was closed at    *)
(* session teardown and the listener has come to rest) the listener has    *)
(* ended, and the listening socket and every connection the listener       *)
(* accepted are closed.  The listener of lines 48-54 never closes conn.    *)
(***************************************************************************)
ListenerAtRest == ~ENABLED (accept \/ accept_fails \/ recv)

C23_NoSocketLeaked ==
    (controller.phase = "closed" /\ ListenerAtRest) =>
        /\ server.listener = "exited"
        /\ server.sock = "closed"
        /\ \A w \in Workers : network[w].conn # "open"

(***************************************************************************)
(* C30.  When the main thread has read the server's buffer for the final   *)
(* report, the report holds everything the workers sent.  The read of      *)
(* build_retry_report waits for nothing: it can come before the listener   *)
(* has received, or even accepted, what a worker sent.                     *)
(***************************************************************************)
C30_ReportHoldsEverythingSent ==
    controller.phase \in {"reported", "closed"} =>
        \A w \in Workers : Sent(w) \subseteq Received(controller.report)

(***************************************************************************)
(* C31.  The call report of the wrapper has the retry label only in the    *)
(* report handed to the host's log hook in the first iteration: between    *)
(* the steps of the loop its outcome is failed, on every exit from the     *)
(* wrapper it is passed, failed or skipped, and the one logged report that *)
(* the status hook answers with "R" is the first attempt's call report.    *)
(***************************************************************************)
StandardOutcomes == {"passed", "failed", "skipped"}

Relabelled ==
    {i \in DOMAIN logreports :
        pytest_report_teststatus(logreports[i], Defaults) = "R"}

C31_LabelOnlyWhileLogged ==
    /\ original_report # NoReport => original_report.outcome \in StandardOutcomes
    /\ pc \in LoopPcs => original_report.outcome = "failed"
    /\ \A i \in DOMAIN logreports :
          logreports[i].outcome \in StandardOutcomes \cup {Defaults.RETRY_OUTCOME}
    /\ \A i \in Relabelled :
          /\ logreports[i].when = "call"
          /\ logreports[i].longrepr.n = 1
          /\ stream # <<>> /\ stream[1].result = RETRY
          /\ \A j \in Relabelled : j = i
    /\ (EnteredLoop /\ pc \in AfterCallPcs) =>
          /\ FinalCallReport.outcome \in StandardOutcomes
          /\ pc = "teardown" => FinalCallReport = original_report

C31_Witness ==
    /\ pc = "retry_call"
    /\ hook_calls["call"] = 2
    /\ attempts = 2
    /\ Cardinality(Relabelled) = 1
    /\ original_report.outcome = "failed"
    /\ Last(logreports).outcome = Defaults.RETRY_OUTCOME

(***************************************************************************)
(* C32.  The retry loop ends for every value R of retries, zero and        *)
(* negative values included: each iteration leaves the loop or adds one to *)
(* attempts, no more than max(R, 1) iterations are run, and, every host    *)
(* hook call returning, a test that is in the loop leaves it at last.      *)
(***************************************************************************)
Max(a, b) == IF a >= b THEN a ELSE b

\* iterations whose preliminary teardown has run: each logs EXIT or RETRY
Iterations ==
    Cardinality({i \in DOMAIN stream : stream[i].result \in {RETRY, EXIT}})

InLoop == pc \in LoopPcs

LoopVariant ==
    EnteredLoop =>
        /\ Iterations <= Max(retries, 1)
        /\ pc = "retry_teardown" => attempts = Iterations + 1
        /\ pc \in {"retry_sleep", "retry_setup", "retry_call"} =>
              attempts = Iterations
        /\ (pc \in AfterCallPcs /\ ExitFrames = 0) => attempts = Iterations + 1
        /\ (pc \in AfterCallPcs /\ ExitFrames = 1) => attempts = Iterations
        /\ attempts <= Max(retries, 1) + 1

C32_LoopTerminates == []LoopVariant /\ (InLoop ~> ~InLoop)

C32_Witness ==
    /\ pc = "done"
    /\ retries = 0 - 1
    /\ Iterations = 1
    /\ attempts = 2
    /\ hook_calls["call"] = 2
    /\ Outcomes("call") = <<"failed", "failed">>

(***************************************************************************)
(* C33.  In a retry attempt the call stage runs whether the attempt's      *)
(* setup raised or not, and the stats of the test take nothing from a      *)
(* retry's setup or from a preliminary teardown: they hold the one outcome *)
(* and duration of the host's setup, and of the host's teardown once it    *)
(* has run.  So the outcome derived from the stats is failed only when the *)
(* last call or the host's teardown failed, never for a retry's setup.     *)
(***************************************************************************)
RetrySetupRaised == EnteredLoop /\ hook_calls["setup_raised"] >= 1

HostTeardownReported == pc \in {"protocol_end", "done"}

C33_RetrySetupLeavesNoTrace ==
    EnteredLoop =>
        /\ pc \in AfterCallPcs \cup {"retry_teardown"} =>
              hook_calls["call"] = hook_calls["setup"]
        /\ Outcomes("setup") = <<"passed">>
        /\ Len(node_stats[item.name].durations["setup"]) = 2
        /\ Len(Outcomes("teardown")) = (IF HostTeardownReported THEN 1 ELSE 0)
        /\ Len(node_stats[item.name].durations["teardown"]) =
              (IF HostTeardownReported THEN 2 ELSE 1)
        /\ (pc = "done" /\ simple_outcome(node_stats[item.name]) = "failed") =>
              \/ Last(Outcomes("call")) = "failed"
              \/ Outcomes("teardown") = <<"failed">>

C33_Witness ==
    /\ pc = "done"
    /\ RetrySetupRaised
    /\ hook_calls["setup"] = 2
    /\ hook_calls["call"] = 2
    /\ Outcomes("call") = <<"failed", "passed">>
    /\ Outcomes("teardown") = <<"passed">>
    /\ simple_outcome(node_stats[item.name]) = "passed"

(***************************************************************************)
(* C34.  The server serves one connection at a time.  Nothing of a worker  *)
(* whose connection is not yet accepted is in the buffer; a connection     *)
(* that was accepted and is no longer served was read to its end of file,  *)
(* all it carried being in the buffer; the pieces of the connection being  *)
(* served are the end of the buffer.  So the buffer is made of whole       *)
(* connection streams in accept order, and while the served worker has not *)
(* closed its connection, all that a later worker sent waits unread.       *)
(***************************************************************************)
PiecesOf(buffer, w) ==
    {i \in DOMAIN buffer : WorkerOf(buffer[i].name) = w}

Served(w) == server.listener = "recv" /\ server.conn = w

\* how many pieces the writes of a worker make
SentLen(w) ==
    Cardinality(Sent(w))

C34_OneConnectionAtATime ==
    \A w \in Workers :
        /\ Contiguous(PiecesOf(server.stream, w))
        /\ network[w].state # "accepted" =>
              /\ PiecesOf(server.stream, w) = {}
              /\ Len(network[w].bytes) = SentLen(w)
        /\ (network[w].state = "accepted" /\ ~Served(w)) =>
              /\ network[w].eof
              /\ network[w].bytes = <<>>
              /\ Cardinality(PiecesOf(server.stream, w)) = SentLen(w)
        /\ Served(w) =>
              /\ \A i \in PiecesOf(server.stream, w) :
                    \A j \in DOMAIN server.stream :
                        i < j => j \in PiecesOf(server.stream, w)
              /\ Cardinality(PiecesOf(server.stream, w))
                    + Len(network[w].bytes) = SentLen(w)

C34_Witness ==
    /\ Served("gw1")
    /\ ~network["gw1"].eof
    /\ network["gw1"].bytes = <<>>
    /\ server.stream # <<>>
    /\ \A i \in DOMAIN server.stream : server.stream[i].name = "test_c"
    /\ network["gw0"].state = "pending"
    /\ network["gw0"].eof
    /\ Len(network["gw0"].writes) = 2
    /\ Len(network["gw0"].bytes) = SentLen("gw0")

====
